---- MODULE Spec2Model ----
(***************************************************************************)
(* Block synchronisation and operation queue of athena-ai.                 *)
(*                                                                         *)
(*   src/lib/store/operations.store.ts        the Operation Queue          *)
(*   src/lib/store/block-cache.store.ts       the Block Identity Cache     *)
(*   src/lib/firebase/services/node.service.ts  NodeService.syncPageBlocks *)
(*   src/components/text-editor.tsx           blocks -> editor content     *)
(*                                                                         *)
(* A text is a sequence of lines: the JavaScript string s is modelled by   *)
(* s.split('\n'), so "" is <<"">> and "x\ny" is <<"x", "y">>.  An order is *)
(* an integer number of OrderUnit-ths: position i is order i * OrderUnit.  *)
(***************************************************************************)
EXTENDS Integers, Sequences, FiniteSets, TLC

(***************************************************************************)
(* Bounds of the model and program constants.                              *)
(***************************************************************************)
\* operations.store.ts:9 sets MAX_BATCH_SIZE = 400; the model scales the
\* ceiling down so that a queue can cross it several times.
MAX_BATCH_SIZE == 2
\* Operations enqueued in one behaviour (the serial numbers 1..MaxOps).
MaxOps == 4
\* Timer handles the runtime can have live at once.
MaxTimers == 2
\* Block ids generateBlockId can hand out in one behaviour.
MaxIds == 4
\* Fractions of a position an order value can express (1 / OrderUnit).
OrderUnit == 2
\* Items of an editor snapshot.
MaxItems == 2
\* syncPageBlocks calls in one behaviour.
MaxSyncs == 2
\* Changes of the editor's document in one behaviour.
MaxSwitches == 1
\* Edits typed into the editor in one behaviour.
MaxTyped == 1
\* Calls of saveContentToFirebase in one behaviour.
MaxSaves == 2

Workspaces == {"w1", "w2"}
Pages == {"p1", "p2", "daily-1", "n3", "temp-1", "c1"}
Ids == 1..MaxIds
Positions == 0..(MaxItems - 1)
TimerIds == 1..MaxTimers

NoId == 0
NoTimer == 0
NoPage == "none"
NoOrder == -1
NoText == << >>

(***************************************************************************)
(* Operation (src/lib/types/operations.ts).  One record shape for the four *)
(* kinds; sn is the serial number the queue model stamps on an operation   *)
(* when it is enqueued (0 before that), so that two equal operations can   *)
(* be told apart.                                                          *)
(***************************************************************************)
CreateOp(id, ws, type, text, parent, order) ==
  [kind |-> "create", nodeId |-> id, ws |-> ws, pageId |-> parent,
   btype |-> type, text |-> text, order |-> order, sn |-> 0]

UpdateTextOp(id, ws, text) ==
  [kind |-> "update", nodeId |-> id, ws |-> ws, pageId |-> NoPage,
   btype |-> "none", text |-> text, order |-> NoOrder, sn |-> 0]

UpdateOrderOp(id, ws, order) ==
  [kind |-> "update", nodeId |-> id, ws |-> ws, pageId |-> NoPage,
   btype |-> "none", text |-> NoText, order |-> order, sn |-> 0]

DeleteOp(id, ws) ==
  [kind |-> "delete", nodeId |-> id, ws |-> ws, pageId |-> NoPage,
   btype |-> "none", text |-> NoText, order |-> NoOrder, sn |-> 0]

DeleteAllOp(page, ws) ==
  [kind |-> "deleteAll", nodeId |-> NoId, ws |-> ws, pageId |-> page,
   btype |-> "none", text |-> NoText, order |-> NoOrder, sn |-> 0]

(***************************************************************************)
(* Sequence helpers.                                                       *)
(***************************************************************************)
Range(s) == {s[i] : i \in 1..Len(s)}

Min(a, b) == IF a < b THEN a ELSE b

RECURSIVE Flatten(_)
Flatten(ss) == IF ss = << >> THEN << >> ELSE Head(ss) \o Flatten(Tail(ss))

\* Stamp serial numbers n+1, n+2, ... on the operations of one enqueue call.
Stamp(ops, n) == [i \in 1..Len(ops) |-> [ops[i] EXCEPT !.sn = n + i]]

Sns(ops) == [i \in 1..Len(ops) |-> ops[i].sn]

\* chunkArray(array, size): consecutive slices of at most size elements.
RECURSIVE chunkArray(_, _)
chunkArray(array, size) ==
  IF array = << >> THEN << >>
  ELSE <<SubSeq(array, 1, Min(size, Len(array)))>>
       \o chunkArray(SubSeq(array, Min(size, Len(array)) + 1, Len(array)), size)


\* The ids of a set in ascending order (a query's result order by document id).
RECURSIVE SortedIds(_)
SortedIds(S) ==
  IF S = {} THEN << >>
  ELSE LET m == CHOOSE x \in S : \A y \in S : x <= y
       IN <<m>> \o SortedIds(S \ {m})

(***************************************************************************)
(* Block Store: workspaces/{ws}/nodes/{id}.  A block record is the part of *)
(* Node (src/lib/types/firestore.ts) the synchronisation reads and writes. *)
(***************************************************************************)
NoBlock == [type |-> "none", text |-> NoText, parentId |-> NoPage, order |-> NoOrder]

Block(type, text, parent, order) ==
  [type |-> type, text |-> text, parentId |-> parent, order |-> order]

EmptyStore == [w \in Workspaces |-> [id \in Ids |-> NoBlock]]

Exists(st, ws, id) == id \in Ids /\ st[ws][id] # NoBlock

\* where('parentId', '==', pageId)
ChildIds(st, ws, page) == {id \in Ids : st[ws][id] # NoBlock /\ st[ws][id].parentId = page}

\* One write of a batch: batch.set, batch.update, batch.delete.
ApplyWrite(st, op) ==
  CASE op.kind = "create" ->
         [st EXCEPT ![op.ws][op.nodeId] = Block(op.btype, op.text, op.pageId, op.order)]
    [] op.kind = "update" /\ op.text # NoText ->
         [st EXCEPT ![op.ws][op.nodeId].text = op.text]
    [] op.kind = "update" /\ op.text = NoText ->
         [st EXCEPT ![op.ws][op.nodeId].order = op.order]
    [] op.kind = "delete" ->
         [st EXCEPT ![op.ws][op.nodeId] = NoBlock]
    [] OTHER -> st

RECURSIVE ApplyBatch(_, _)
ApplyBatch(st, ops) ==
  IF ops = << >> THEN st ELSE ApplyBatch(ApplyWrite(st, Head(ops)), Tail(ops))

\* Firestore rejects a batch in which an update addresses a document that does
\* not exist when the write is applied; set and delete have no precondition.
RECURSIVE BatchOK(_, _)
BatchOK(st, ops) ==
  IF ops = << >> THEN TRUE
  ELSE /\ (Head(ops).kind = "update" => Exists(st, Head(ops).ws, Head(ops).nodeId))
       /\ BatchOK(ApplyWrite(st, Head(ops)), Tail(ops))

\* A delete that addresses the ids in every workspace.
DeleteIds_EveryWorkspace(st, ws, ids) ==
  [w \in Workspaces |-> [id \in Ids |-> IF id \in ids THEN NoBlock ELSE st[w][id]]]

\* batch.delete(doc(db, 'workspaces', workspaceId, 'nodes', block.id)) for the
\* blocks of one chunk.
DeleteIds(st, ws, ids) ==
  [st EXCEPT ![ws] = [id \in Ids |-> IF id \in ids THEN NoBlock ELSE st[ws][id]]]

(***************************************************************************)
(* State.                                                                  *)
(***************************************************************************)
VARIABLES
  store,        \* the Block Store
  blockCache,   \* useBlockCacheStore.blockCache: (page, position) -> block id
  nextId,       \* block ids handed out by generateBlockId so far
  sync,         \* the syncPageBlocks call in flight, if any
  operations,   \* useOperationsStore.operations
  flushTimer,   \* useOperationsStore.flushTimer (a handle, or NoTimer for null)
  isProcessing, \* useOperationsStore.isProcessing
  liveTimers,   \* timers of the runtime that are armed and not fired or cleared
  flights,      \* flushOperations calls that are past line 99 and not yet ended
  enq,          \* number of operations enqueued so far (last serial number)
  log,          \* the operations written so far, and the batches of a run without failure
  ended,        \* how the most recent flushOperations run ended
  burst,        \* serial numbers enqueued since the queue was last at rest
  hist,         \* the syncPageBlocks calls so far: how many, and the last three
  editor,       \* the TextEditor component and its useEditorPersistence hook
  rootContent   \* the pages whose root record carries a content field

queueVars == <<operations, flushTimer, isProcessing, liveTimers, flights, enq, log, ended, burst>>
syncVars == <<blockCache, nextId, sync, hist, editor, rootContent>>
vars == <<store, blockCache, nextId, sync, operations, flushTimer, isProcessing,
          liveTimers, flights, enq, log, ended, burst, hist, editor, rootContent>>

(***************************************************************************)
(* flushOperations, lines 101-170: the writes one run will issue, in order.*)
(***************************************************************************)
\* Lines 103-111: a Map keeps insertion order, so workspaces come in the order
\* of their first operation and each keeps its operations in queue order.
RECURSIVE WorkspaceOrder(_, _)
WorkspaceOrder(ops, seen) ==
  IF ops = << >> THEN << >>
  ELSE IF Head(ops).ws \in seen THEN WorkspaceOrder(Tail(ops), seen)
  ELSE <<Head(ops).ws>> \o WorkspaceOrder(Tail(ops), seen \cup {Head(ops).ws})

IsDeleteAll(op) == op.kind = "deleteAll"
IsOther(op) == op.kind # "deleteAll"

OfWorkspace(ops, ws) == SelectSeq(ops, LAMBDA op : op.ws = ws)

DeleteAllStep(op) ==
  [kind |-> "deleteAll", ws |-> op.ws, pageId |-> op.pageId, ops |-> << >>, ids |-> << >>, sn |-> op.sn]
DelChunkStep(ws, page, ids, sn) ==
  [kind |-> "delChunk", ws |-> ws, pageId |-> page, ops |-> << >>, ids |-> ids, sn |-> sn]
CommitStep(ws, ops) ==
  [kind |-> "commit", ws |-> ws, pageId |-> NoPage, ops |-> ops, ids |-> << >>, sn |-> 0]

\* A chunk whose batch is committed before its deleteAll operations run.
ChunkSteps_CommitFirst(ws, chunk) ==
  LET deleteAllOps == SelectSeq(chunk, IsDeleteAll)
      otherOps == SelectSeq(chunk, IsOther)
  IN (IF Len(otherOps) > 0 THEN <<CommitStep(ws, otherOps)>> ELSE << >>)
     \o [i \in 1..Len(deleteAllOps) |-> DeleteAllStep(deleteAllOps[i])]

\* Lines 118-169, one chunk: every deleteAll of the chunk, then one batch with
\* the other operations when there are any.
ChunkSteps(ws, chunk) ==
  LET deleteAllOps == SelectSeq(chunk, IsDeleteAll)
      otherOps == SelectSeq(chunk, IsOther)
  IN [i \in 1..Len(deleteAllOps) |-> DeleteAllStep(deleteAllOps[i])]
     \o (IF Len(otherOps) > 0 THEN <<CommitStep(ws, otherOps)>> ELSE << >>)

RECURSIVE ChunksSteps(_, _)
ChunksSteps(ws, chunks) ==
  IF chunks = << >> THEN << >>
  ELSE ChunkSteps(ws, Head(chunks)) \o ChunksSteps(ws, Tail(chunks))

RECURSIVE WorkspacesSteps(_, _)
WorkspacesSteps(ops, wss) ==
  IF wss = << >> THEN << >>
  ELSE ChunksSteps(Head(wss), chunkArray(OfWorkspace(ops, Head(wss)), MAX_BATCH_SIZE))
       \o WorkspacesSteps(ops, Tail(wss))

FlushPlan(ops) == WorkspacesSteps(ops, WorkspaceOrder(ops, {}))

(***************************************************************************)
(* Operation Queue (src/lib/store/operations.store.ts).                    *)
(***************************************************************************)
NoEnd == [outcome |-> "none", settled |-> "none", snap |-> << >>]

\* flushOperations without the isProcessing guard of lines 88-91.
FlushSkips_NoGuard(processing, ops) == Len(ops) = 0

\* Lines 87-96: flushOperations returns at once when a run is in progress or
\* the queue is empty.
FlushSkips(processing, ops) == processing \/ Len(ops) = 0

\* A run of flushOperations: the operations it read (line 85), the store
\* writes it has still to issue, the store as it was when the run began, and
\* the store as the run's latest handleDeleteAll query saw it.
NewFlight(ops) == [snap |-> ops, plan |-> FlushPlan(ops), base |-> store, seen |-> store]

\* log.written: serial numbers of the operations a successful store write has
\* carried.  log.commits: the batches committed by lines 133-167, in order, as
\* long as no store call has failed (log.clean).  log.cud: only create, update
\* and delete operations were enqueued.  log.timed: a run was started by a
\* timer, an explicit call or beforeunload; log.early: and an enqueue followed.
NoLog == [written |-> {}, commits |-> << >>, clean |-> TRUE, cud |-> TRUE,
          timed |-> FALSE, early |-> FALSE]

LogDeleteAll(sn) == [log EXCEPT !.written = @ \cup {sn}]

LogCommit(sns) ==
  [log EXCEPT !.written = @ \cup Range(sns),
              !.commits = IF log.clean THEN Append(@, sns) ELSE @]

LogFailure == [log EXCEPT !.clean = FALSE, !.commits = << >>]

LogEnqueue(ops) ==
  [log EXCEPT !.cud = @ /\ \A k \in 1..Len(ops) : ops[k].kind # "deleteAll",
              !.early = @ \/ log.timed]

LogCall(ops) == IF FlushSkips(isProcessing, ops) THEN log ELSE [log EXCEPT !.timed = TRUE]

\* A call of flushOperations up to its first await (lines 85-119), made when
\* the queue holds ops: the queue's new isProcessing and flights.
CallFlush(ops) ==
  IF FlushSkips(isProcessing, ops)
  THEN /\ isProcessing' = isProcessing
       /\ flights' = flights
  ELSE /\ isProcessing' = TRUE
       /\ flights' = Append(flights, NewFlight(ops))

\* burst: the serial numbers enqueued, one call after another, while no
\* flushOperations run was in progress and since the last one ended.
BurstAfterCall(ops) == IF FlushSkips(isProcessing, ops) THEN burst ELSE << >>

\* setTimeout hands out a handle no armed timer has.
FreshTimer(live) == CHOOSE t \in TimerIds \ live : \A u \in TimerIds \ live : t <= u

\* Lines 23-25 and 56-58: clearTimeout(state.flushTimer) when it is set.
ClearTimer(live, timer) == IF timer # NoTimer THEN live \ {timer} ELSE live

\* A size check that lets the queue hold MAX_BATCH_SIZE operations.
AtCeiling_Above(ops) == Len(ops) > MAX_BATCH_SIZE

\* Lines 45 and 78: get().operations.length >= MAX_BATCH_SIZE.
AtCeiling(ops) == Len(ops) >= MAX_BATCH_SIZE

\* The set() of addOperation / addOperations (lines 21-42, 54-75) followed by
\* the size check (lines 44-48, 77-81), for the operations ops of one call.
Enqueue(ops) ==
  LET stamped == Stamp(ops, enq)
      cleared == ClearTimer(liveTimers, flushTimer)
      newOperations == operations \o stamped
  IN /\ enq + Len(ops) <= MaxOps
     /\ TimerIds \ cleared # {}
     /\ operations' = newOperations
     /\ flushTimer' = FreshTimer(cleared)
     /\ liveTimers' = cleared \cup {FreshTimer(cleared)}
     /\ enq' = enq + Len(ops)
     /\ IF AtCeiling(newOperations)
        THEN /\ CallFlush(newOperations)
             /\ burst' = IF FlushSkips(isProcessing, newOperations) /\ flights = << >>
                         THEN burst \o Sns(stamped) ELSE << >>
        ELSE /\ isProcessing' = isProcessing
             /\ flights' = flights
             /\ burst' = IF flights = << >> THEN burst \o Sns(stamped) ELSE << >>
     /\ log' = LogEnqueue(ops)
     /\ UNCHANGED ended

\* addOperation, lines 18-49.
AddOperation(op) == Enqueue(<<op>>) /\ UNCHANGED <<store, syncVars>>

\* addOperations, lines 51-82.
AddOperations(ops) == Enqueue(ops) /\ UNCHANGED <<store, syncVars>>

\* The callback of setTimeout (lines 31-34, 64-67) runs: get().flushOperations().
TimerFire(t) ==
  /\ t \in liveTimers
  /\ liveTimers' = liveTimers \ {t}
  /\ CallFlush(operations)
  /\ burst' = BurstAfterCall(operations)
  /\ log' = LogCall(operations)
  /\ UNCHANGED <<store, syncVars, operations, flushTimer, enq, ended>>

\* An explicit call of flushOperations by a user of the store.
FlushCall ==
  /\ CallFlush(operations)
  /\ burst' = BurstAfterCall(operations)
  /\ log' = LogCall(operations)
  /\ UNCHANGED <<store, syncVars, operations, flushTimer, liveTimers, enq, ended>>

\* The beforeunload handler, lines 262-270.
BeforeUnload ==
  /\ Len(operations) > 0
  /\ CallFlush(operations)
  /\ burst' = BurstAfterCall(operations)
  /\ log' = LogCall(operations)
  /\ UNCHANGED <<store, syncVars, operations, flushTimer, liveTimers, enq, ended>>

(***************************************************************************)
(* The awaits of a flushOperations run: flights[i] resumes.                *)
(***************************************************************************)
RemoveAt(s, i) == SubSeq(s, 1, i - 1) \o SubSeq(s, i + 1, Len(s))

Step(i) == Head(flights[i].plan)

Advance(i, steps) == [flights EXCEPT ![i].plan = steps \o Tail(flights[i].plan)]


\* handleDeleteAll, lines 219-238: the query answers; nothing to delete returns
\* (line 232), otherwise the blocks are chunked for deletion.
FlushQuery(i) ==
  /\ i \in 1..Len(flights)
  /\ flights[i].plan # << >>
  /\ Step(i).kind = "deleteAll"
  /\ LET s == Step(i)
         blocks == SortedIds(ChildIds(store, s.ws, s.pageId))
         chunks == chunkArray(blocks, MAX_BATCH_SIZE)
     IN /\ flights' = [Advance(i, [k \in 1..Len(chunks) |->
                                    DelChunkStep(s.ws, s.pageId, chunks[k], s.sn)])
                          EXCEPT ![i].seen = store]
        /\ log' = IF blocks = << >> THEN LogDeleteAll(s.sn) ELSE log
  /\ UNCHANGED <<store, syncVars, operations, flushTimer, isProcessing, liveTimers, enq, ended, burst>>

\* handleDeleteAll, lines 240-252: one batch of deletes commits.
FlushDelChunk(i) ==
  /\ i \in 1..Len(flights)
  /\ flights[i].plan # << >>
  /\ Step(i).kind = "delChunk"
  /\ LET s == Step(i)
         rest == Tail(flights[i].plan)
         last == rest = << >> \/ Head(rest).kind # "delChunk"
     IN /\ store' = DeleteIds(store, s.ws, Range(s.ids))
        /\ flights' = Advance(i, << >>)
        /\ log' = IF last THEN LogDeleteAll(s.sn) ELSE log
  /\ UNCHANGED <<syncVars, operations, flushTimer, isProcessing, liveTimers, enq, ended, burst>>

\* Lines 133-167: batch.commit() of a chunk's other operations succeeds.
FlushCommit(i) ==
  /\ i \in 1..Len(flights)
  /\ flights[i].plan # << >>
  /\ Step(i).kind = "commit"
  /\ BatchOK(store, Step(i).ops)
  /\ store' = ApplyBatch(store, Step(i).ops)
  /\ flights' = Advance(i, << >>)
  /\ log' = LogCommit(Sns(Step(i).ops))
  /\ UNCHANGED <<syncVars, operations, flushTimer, isProcessing, liveTimers, enq, ended, burst>>

\* A catch block that empties the queue as the success path does.
FlushCatch_Drops(ops) == [operations |-> << >>, isProcessing |-> FALSE, settled |-> "resolved"]

\* Lines 179-183: the state the catch block leaves, and how the promise of
\* flushOperations settles.
FlushCatch(ops) == [operations |-> ops, isProcessing |-> FALSE, settled |-> "resolved"]

\* An awaited store call throws (the store is unreachable, or the batch is
\* rejected); the write has no effect and the catch block runs.
FlushFail(i) ==
  /\ i \in 1..Len(flights)
  /\ flights[i].plan # << >>
  /\ operations' = FlushCatch(operations).operations
  /\ isProcessing' = FlushCatch(operations).isProcessing
  /\ ended' = [outcome |-> "failed", settled |-> FlushCatch(operations).settled,
               snap |-> Sns(flights[i].snap)]
  /\ flights' = RemoveAt(flights, i)
  /\ burst' = << >>
  /\ log' = LogFailure
  /\ UNCHANGED <<store, syncVars, flushTimer, liveTimers, enq>>

\* Lines 172-177: the state set after the last chunk.
FlushDone(ops) == [operations |-> << >>, isProcessing |-> FALSE, flushTimer |-> NoTimer]

\* Every write of the run has succeeded: the queue is cleared.
FlushFinish(i) ==
  /\ i \in 1..Len(flights)
  /\ flights[i].plan = << >>
  /\ operations' = FlushDone(operations).operations
  /\ isProcessing' = FlushDone(operations).isProcessing
  /\ flushTimer' = FlushDone(operations).flushTimer
  /\ ended' = [outcome |-> "ok", settled |-> "resolved", snap |-> Sns(flights[i].snap)]
  /\ flights' = RemoveAt(flights, i)
  /\ burst' = << >>
  /\ UNCHANGED <<store, syncVars, liveTimers, enq, log>>

\* clearQueue, lines 186-196.
ClearQueue ==
  /\ liveTimers' = ClearTimer(liveTimers, flushTimer)
  /\ operations' = << >>
  /\ flushTimer' = NoTimer
  /\ isProcessing' = FALSE
  /\ burst' = << >>
  /\ UNCHANGED <<store, syncVars, flights, enq, log, ended>>

(***************************************************************************)
(* Editor snapshot: the content array of buildContentFromDocument.         *)
(***************************************************************************)
Undefined == "<undefined>"

Paragraph(content) == [type |-> "paragraph", content |-> content, items |-> << >>]
BulletList(items) == [type |-> "bullet_list", content |-> Undefined, items |-> items]
Heading(content) == [type |-> "heading", content |-> content, items |-> << >>]

\* A paragraph's content and a heading's content are texts; a bullet list's
\* items are lines.

\* String.prototype.trim on a line of the model's alphabet.
Trim(line) == IF line = " " THEN "" ELSE line

\* !text.trim(): nothing but white space.
IsBlank(text) == \A k \in 1..Len(text) : Trim(text[k]) = ""

\* items.join('\n'), as the lines of the joined string.
Join(items) == IF items = << >> THEN <<"">> ELSE items

(***************************************************************************)
(* Block Identity Cache (src/lib/store/block-cache.store.ts).              *)
(***************************************************************************)
\* Line 18: blockCache: new Map().  NoId stands for an absent entry.
EmptyCache == [p \in Pages |-> [i \in Positions |-> NoId]]

getBlockId(cache, pageId, order) == cache[pageId][order]

setBlockId(cache, pageId, order, blockId) == [cache EXCEPT ![pageId][order] = blockId]

\* A clear that drops the entries of every page.
clearPageCache_All(cache, pageId) == EmptyCache
\* Lines 41-48.
clearPageCache(cache, pageId) == [cache EXCEPT ![pageId] = [i \in Positions |-> NoId]]

clearAllCache(cache) == EmptyCache

(***************************************************************************)
(* NodeService.getBlocks: the children of a page, ordered by order (and by *)
(* document id among equal orders).                                        *)
(***************************************************************************)
Before(st, ws, a, b) ==
  \/ st[ws][a].order < st[ws][b].order
  \/ st[ws][a].order = st[ws][b].order /\ a <= b

RECURSIVE SortByOrder(_, _, _)
SortByOrder(st, ws, S) ==
  IF S = {} THEN << >>
  ELSE LET m == CHOOSE x \in S : \A y \in S : Before(st, ws, x, y)
       IN <<[id |-> m, type |-> st[ws][m].type, text |-> st[ws][m].text,
             order |-> st[ws][m].order]>>
          \o SortByOrder(st, ws, S \ {m})

getBlocks(st, ws, parentId) == SortByOrder(st, ws, ChildIds(st, ws, parentId))

(***************************************************************************)
(* NodeService.syncPageBlocks (node.service.ts:1083-1355).                 *)
(***************************************************************************)
\* |order - i| < 1 / tolerance, with order in OrderUnit-ths.
Within(order, i, tolerance) ==
  (IF order >= i * OrderUnit THEN order - i * OrderUnit ELSE i * OrderUnit - order)
    * tolerance < OrderUnit

\* Line 1100: the empty-content test.
IsEmptyContent(content) ==
  \/ Len(content) = 0
  \/ Len(content) = 1 /\ content[1].type = "paragraph"
       /\ (content[1].content = Undefined \/ content[1].content = <<"">>)

\* Line 1160: new Map(existingBlocks.map(b => [b.order, b])), as the values in
\* the Map's iteration order: a later block replaces an earlier one of the same
\* order in place.
RECURSIVE MapOf(_, _)
MapOf(blocks, m) ==
  IF blocks = << >> THEN m
  ELSE LET b == Head(blocks)
           at == {k \in 1..Len(m) : m[k].order = b.order}
       IN MapOf(Tail(blocks),
                IF at = {} THEN Append(m, b)
                ELSE [m EXCEPT ![CHOOSE k \in at : TRUE] = b])

existingBlockMap(existingBlocks) == MapOf(existingBlocks, << >>)

\* Array.prototype.find: the first element that satisfies Test, if any.
Found(seq, Test(_)) == {k \in 1..Len(seq) : Test(seq[k])} # {}
Find(seq, Test(_)) ==
  seq[CHOOSE k \in 1..Len(seq) : Test(seq[k]) /\ \A j \in 1..(k - 1) : ~Test(seq[j])]

\* Lines 1163-1165.
existingParagraphs(existingBlocks) == SelectSeq(existingBlocks, LAMBDA b : b.type = "paragraph")

\* The loop of lines 1171-1318 carries: processedOrders, operations, the
\* cache as setBlockId leaves it, and the block ids handed out.
WithinUnits(a, b, tolerance) == (IF a >= b THEN a - b ELSE b - a) * tolerance < OrderUnit

\* Lines 1176-1254: a paragraph item at position i.
SyncParagraph(acc, item, i, ws, pageId, emap, paras) ==
  LET IsAt(b) == b.order = i * OrderUnit
      hasExisting == Found(emap, IsAt)
      existingBlock == Find(emap, IsAt)
      cachedBlockId == getBlockId(acc.cache, pageId, i)
      text == item.content
      IsSame(p) == p.text = text /\ p.order \notin acc.processed
  IN IF cachedBlockId # NoId
     THEN [acc EXCEPT !.ops = Append(@, UpdateTextOp(cachedBlockId, ws, text))]
     ELSE IF hasExisting /\ existingBlock.type = "paragraph"
     THEN [acc EXCEPT !.cache = setBlockId(@, pageId, i, existingBlock.id),
                      !.ops = IF existingBlock.text # text
                              THEN Append(@, UpdateTextOp(existingBlock.id, ws, text))
                              ELSE @]
     ELSE IF ~IsBlank(item.content)
     THEN LET replaced == IF hasExisting
                          THEN Append(acc.ops, DeleteOp(existingBlock.id, ws))
                          ELSE acc.ops
          IN IF Found(paras, IsSame)
             THEN [acc EXCEPT !.ops = Append(replaced,
                                        UpdateOrderOp(Find(paras, IsSame).id, ws, i * OrderUnit)),
                              !.processed = @ \cup {Find(paras, IsSame).order}]
             ELSE [acc EXCEPT !.nextId = @ + 1,
                              !.cache = setBlockId(@, pageId, i, acc.nextId + 1),
                              !.ops = Append(replaced,
                                        CreateOp(acc.nextId + 1, ws, "paragraph", text,
                                                 pageId, i * OrderUnit))]
     ELSE acc

\* Lines 1255-1317: a bullet_list item at position i.
SyncBulletList(acc, item, i, ws, pageId, emap) ==
  LET bulletListText == Join(item.items)
      IsBulletAt(b) == Within(b.order, i, 1000) /\ b.type = "bullet"
      IsOtherAt(b) == Within(b.order, i, 1000) /\ b.type # "bullet"
  IN IF Found(emap, IsBulletAt)
     THEN LET existingBlock == Find(emap, IsBulletAt)
          IN [acc EXCEPT !.cache = setBlockId(@, pageId, i, existingBlock.id),
                         !.ops = IF existingBlock.text # bulletListText
                                 THEN Append(@, UpdateTextOp(existingBlock.id, ws, bulletListText))
                                 ELSE @]
     ELSE LET replaced == IF Found(emap, IsOtherAt)
                          THEN Append(acc.ops, DeleteOp(Find(emap, IsOtherAt).id, ws))
                          ELSE acc.ops
          IN [acc EXCEPT !.nextId = @ + 1,
                         !.ops = Append(replaced,
                                   CreateOp(acc.nextId + 1, ws, "bullet", bulletListText,
                                            pageId, i * OrderUnit))]

\* A loop that takes a heading for a paragraph.
RECURSIVE SyncItems_HeadingAsParagraph(_, _, _, _, _, _, _)
SyncItems_HeadingAsParagraph(acc, content, i, ws, pageId, emap, paras) ==
  IF i >= Len(content) THEN acc
  ELSE LET item == content[i + 1]
           seen == [acc EXCEPT !.processed = @ \cup {i * OrderUnit}]
           next == IF item.type \in {"paragraph", "heading"} /\ item.content # Undefined
                   THEN SyncParagraph(seen, item, i, ws, pageId, emap, paras)
                   ELSE IF item.type = "bullet_list"
                   THEN SyncBulletList(seen, item, i, ws, pageId, emap)
                   ELSE seen
       IN SyncItems_HeadingAsParagraph(next, content, i + 1, ws, pageId, emap, paras)

\* Lines 1171-1318: the items from position i on.
RECURSIVE SyncItems(_, _, _, _, _, _, _)
SyncItems(acc, content, i, ws, pageId, emap, paras) ==
  IF i >= Len(content) THEN acc
  ELSE LET item == content[i + 1]
           seen == [acc EXCEPT !.processed = @ \cup {i * OrderUnit}]
           next == IF item.type = "paragraph" /\ item.content # Undefined
                   THEN SyncParagraph(seen, item, i, ws, pageId, emap, paras)
                   ELSE IF item.type = "bullet_list"
                   THEN SyncBulletList(seen, item, i, ws, pageId, emap)
                   ELSE seen
       IN SyncItems(next, content, i + 1, ws, pageId, emap, paras)

\* Lines 1320-1342: a Delete for every block of the map whose order no
\* processed order is within 0.0001 of.
RECURSIVE DeleteLoop(_, _, _)
DeleteLoop(emap, processed, ws) ==
  IF emap = << >> THEN << >>
  ELSE LET block == Head(emap)
           isProcessed == \E p \in processed : WithinUnits(block.order, p, 10000)
       IN (IF isProcessed THEN << >> ELSE <<DeleteOp(block.id, ws)>>)
          \o DeleteLoop(Tail(emap), processed, ws)

\* Lines 1150-1342: the operations of a non-empty snapshot, with the cache and
\* the id counter the call leaves.
SyncOps(content, existingBlocks, cache, ids, ws, pageId) ==
  LET emap == existingBlockMap(existingBlocks)
      start == [processed |-> {}, ops |-> << >>, cache |-> cache, nextId |-> ids]
      done == SyncItems(start, content, 0, ws, pageId, emap, existingParagraphs(existingBlocks))
  IN [done EXCEPT !.ops = @ \o DeleteLoop(emap, done.processed, ws)]

(***************************************************************************)
(* A syncPageBlocks call as the steps between its awaits.                  *)
(***************************************************************************)
NoSync == [pc |-> "idle", ws |-> "w1", pageId |-> NoPage, content |-> << >>, existing |-> << >>]

\* hist.snaps: for each of the last three calls, the snapshot, the operations
\* it handed to the queue, whether the page had persisted blocks when it was
\* called, and how many operations had been enqueued before.  hist.base: the
\* snapshot the initial store was derived from, as the first entry.
HistEntry(content, ops, hadBlocks, before) ==
  [content |-> content, ops |-> ops, hadBlocks |-> hadBlocks, before |-> before]

NoHist(base) == [calls |-> 0, snaps |-> <<HistEntry(base, << >>, FALSE, 0)>>]

Recorded(entry) ==
  [calls |-> hist.calls + 1,
   snaps |-> IF Len(hist.snaps) = 3 THEN Tail(hist.snaps) \o <<entry>>
             ELSE Append(hist.snaps, entry)]

\* Lines 1090-1151.  An empty snapshot queues one deleteAll and returns;
\* otherwise the call removes the content field of the root record when the
\* record has one (lines 1138-1148) and reads the page's blocks.
SyncStart(ws, pageId, content) ==
  /\ sync.pc = "idle"
  /\ hist.calls < MaxSyncs
  /\ IF IsEmptyContent(content)
     THEN /\ Enqueue(<<DeleteAllOp(pageId, ws)>>)
          /\ hist' = Recorded(HistEntry(content, <<DeleteAllOp(pageId, ws)>>,
                                        ChildIds(store, ws, pageId) # {}, enq))
          /\ UNCHANGED <<store, rootContent, blockCache, nextId, sync>>
     ELSE /\ sync' = [pc |-> "read", ws |-> ws, pageId |-> pageId, content |-> content,
                      existing |-> getBlocks(store, ws, pageId)]
          /\ rootContent' = rootContent \ {pageId}
          /\ UNCHANGED <<store, blockCache, nextId, hist, queueVars>>

\* Lines 1152-1355: the blocks are there; the operations are computed and, when
\* there are any, handed to addOperations.
SyncFinish ==
  /\ sync.pc = "read"
  /\ LET r == SyncOps(sync.content, sync.existing, blockCache, nextId, sync.ws, sync.pageId)
     IN /\ r.nextId <= MaxIds
        /\ blockCache' = r.cache
        /\ nextId' = r.nextId
        /\ hist' = Recorded(HistEntry(sync.content, r.ops, sync.existing # << >>, enq))
        /\ IF Len(r.ops) > 0 THEN Enqueue(r.ops) ELSE UNCHANGED queueVars
  /\ sync' = NoSync
  /\ UNCHANGED <<store, rootContent>>

\* text-editor.tsx:81-90: the editor moves to another document and the cache
\* of the page it leaves is cleared.
ClearPageCache(pageId) ==
  /\ blockCache[pageId] # EmptyCache[pageId]
  /\ blockCache' = clearPageCache(blockCache, pageId)
  /\ UNCHANGED <<store, rootContent, nextId, sync, hist, editor, queueVars>>

(***************************************************************************)
(* TextEditor, text-editor.tsx:157-218: the blocks of a page as content.   *)
(***************************************************************************)
\* Line 185: text.split('\n').filter(item => item.trim())
SplitItems(text) == SelectSeq(text, LAMBDA line : Trim(line) # "")

RECURSIVE BlockContent(_)
BlockContent(sortedBlocks) ==
  IF sortedBlocks = << >> THEN << >>
  ELSE LET block == Head(sortedBlocks)
       IN (CASE block.type = "bullet" -> <<BulletList(SplitItems(block.text))>>
             [] block.type \in {"paragraph", "text"} -> <<Paragraph(block.text)>>
             [] block.type = "heading" -> <<Heading(block.text)>>
             [] OTHER -> << >>)
          \o BlockContent(Tail(sortedBlocks))

\* Lines 157-229: the content the editor is initialised with: the blocks in
\* order, or one empty paragraph when there is none.
RenderBlocks(blocks) ==
  IF BlockContent(blocks) = << >> THEN <<Paragraph(<<"">>)>> ELSE BlockContent(blocks)

(***************************************************************************)
(* Content strings.  A string is the JSON text of a content array, the     *)
(* empty string, or a text that is no JSON.                                *)
(***************************************************************************)
EmptyString == [text |-> "empty", value |-> << >>]
Garbage == [text |-> "garbage", value |-> << >>]

\* JSON.stringify of a content array.
Stringify(content) == [text |-> "json", value |-> content]

\* JSON.parse: the value, or a SyntaxError.
JSONparse(string) ==
  IF string.text = "json" THEN [ok |-> TRUE, value |-> string.value]
  ELSE [ok |-> FALSE, value |-> << >>]

\* A string in a condition: the empty string is falsy.
Truthy(string) == string # EmptyString

\* buildDocumentFromContent, part_004:567-619: the nodes made for the items;
\* item.content || '' gives a node without text, a bullet list without items
\* gives no node.
RECURSIVE DocNodes(_)
DocNodes(parsed) ==
  IF parsed = << >> THEN << >>
  ELSE LET item == Head(parsed)
           content == IF item.content = Undefined THEN <<"">> ELSE item.content
       IN (CASE item.type = "paragraph" -> <<Paragraph(content)>>
             [] item.type = "heading" -> <<Heading(content)>>
             [] item.type = "bullet_list" /\ item.items # << >> -> <<BulletList(item.items)>>
             [] OTHER -> << >>)
          \o DocNodes(Tail(parsed))

\* The document with one empty paragraph.
EmptyDocument == <<Paragraph(<<"">>)>>

\* A build that shows a string it cannot parse as a paragraph of raw text.
buildDocumentFromContent_Keeps(content) ==
  IF ~JSONparse(content).ok THEN <<Paragraph(<<content.text>>)>>
  ELSE IF DocNodes(JSONparse(content).value) = << >> THEN EmptyDocument
  ELSE DocNodes(JSONparse(content).value)

\* buildDocumentFromContent, part_004:561-633: the document of a content
\* string; one empty paragraph when there is no node or the string does not
\* parse.
buildDocumentFromContent(content) ==
  IF ~JSONparse(content).ok THEN EmptyDocument
  ELSE IF DocNodes(JSONparse(content).value) = << >> THEN EmptyDocument
  ELSE DocNodes(JSONparse(content).value)

(***************************************************************************)
(* TextEditor (text-editor.tsx) with its useEditorPersistence hook         *)
(* (part_011:43-253).  The component stays mounted while the route's       *)
(* nodeId changes; the effects of a commit run one after another, the      *)
(* hook's before the component's, and promise callbacks run between        *)
(* commits.                                                                *)
(***************************************************************************)
NoDocument == << >>
NoSave == [by |-> "none", path |-> "none", nodeId |-> NoPage, threw |-> FALSE]
\* No clearPageCache call yet; at is the number of syncPageBlocks calls ended
\* before the most recent one.
NoClear == [at |-> -1, pageId |-> NoPage]
NoPending == [armed |-> FALSE, content |-> EmptyString, nodeId |-> NoPage]

\* nodeId.startsWith('daily-'), nodeId.startsWith('temp-').
IsDailyId(nodeId) == nodeId \in {"daily-1"}
IsTemporaryNode(nodeId) == nodeId \in {"temp-1"}

\* The root records of the workspace (useWorkspaceStore.nodes): p1 and p2 are
\* pages, the other ids have no record.
Roots == [d \in Pages |-> IF d \in {"p1", "p2"} THEN "page" ELSE "none"]

NoLocal == [d \in Pages |-> EmptyString]

\* The id createNode gives the node it creates.
NewNodeId == "c1"

\* The component as mounted on document nodeId, its mount effects pending.
\* mountNodeId is the hook's prevNodeIdRef, which is never assigned again.
\* blocksOf is the document the blocks state was loaded for; shown is the
\* document the editor was last created for and, when its content came from
\* the blocks state, the document those blocks were loaded for.
EditorOn(nodeId) ==
  [nodeId |-> nodeId, prevNodeIdRef |-> nodeId, mountNodeId |-> nodeId,
   blocksLoadedRef |-> FALSE, blocks |-> << >>, blocksDefined |-> FALSE,
   blocksLoaded |-> FALSE, prevBlocksLength |-> 0, isInitialized |-> FALSE,
   doc |-> NoDocument, closure |-> NoPage,
   effects |-> <<"load", "clearCache", "init">>, loads |-> << >>, imports |-> << >>,
   nodes |-> Roots, local |-> NoLocal, pending |-> NoPending, save |-> NoSave,
   switches |-> 0, typed |-> 0, saves |-> 0, synced |-> << >>, cleared |-> NoClear,
   blocksOf |-> NoPage, shown |-> [nodeId |-> NoPage, from |-> NoPage]]

\* currentNode is a daily note or a page (text-editor.tsx:109, 132).
IsPageNode(nodeId) == editor.nodes[nodeId] \in {"daily", "page"}

\* The route changes to another document: the component renders with the new
\* nodeId and the effects that depend on it are scheduled.
Navigate(nodeId) ==
  /\ editor.effects = << >>
  /\ nodeId # editor.nodeId
  /\ editor.switches < MaxSwitches
  /\ editor' = [editor EXCEPT !.nodeId = nodeId,
                              !.effects = <<"load", "clearCache", "init">>,
                              !.switches = @ + 1]
  /\ UNCHANGED <<store, rootContent, blockCache, nextId, sync, hist, queueVars>>

\* part_011:70-95, the hook's effect on [workspaceId, nodeId, loadNode]: the
\* blocks are requested unless blocksLoadedRef says they were.
EffectLoad ==
  /\ editor.effects # << >>
  /\ Head(editor.effects) = "load"
  /\ LET loadedRef == IF editor.nodeId # editor.mountNodeId THEN FALSE
                      ELSE editor.blocksLoadedRef
     IN editor' = [editor EXCEPT !.effects = Tail(@),
                                 !.blocksLoadedRef = loadedRef,
                                 !.loads = IF loadedRef THEN @ ELSE Append(@, editor.nodeId)]
  /\ UNCHANGED <<store, rootContent, blockCache, nextId, sync, hist, queueVars>>

\* part_011:82-87: a getBlocks promise resolves; the blocks are the hook's
\* state and the component renders again with them.
LoadResolved(k) ==
  /\ editor.effects = << >>
  /\ k \in 1..Len(editor.loads)
  /\ editor' = [editor EXCEPT !.loads = RemoveAt(@, k),
                              !.blocks = getBlocks(store, "w1", editor.loads[k]),
                              !.blocksOf = editor.loads[k],
                              !.blocksDefined = TRUE,
                              !.blocksLoaded = TRUE,
                              !.blocksLoadedRef = TRUE,
                              !.effects = <<"init">>]
  /\ UNCHANGED <<store, rootContent, blockCache, nextId, sync, hist, queueVars>>

\* text-editor.tsx:81-90, the effect on [nodeId]: when nodeId differs from
\* prevNodeIdRef.current the cache module is imported; the clear itself is the
\* promise callback.  from and to record the switch that scheduled it.
EffectClearCache ==
  /\ editor.effects # << >>
  /\ Head(editor.effects) = "clearCache"
  /\ editor' = [editor EXCEPT
       !.effects = Tail(@),
       !.imports = IF editor.nodeId # editor.prevNodeIdRef
                   THEN Append(@, [from |-> editor.prevNodeIdRef, to |-> editor.nodeId])
                   ELSE @]
  /\ UNCHANGED <<store, rootContent, blockCache, nextId, sync, hist, queueVars>>

\* text-editor.tsx:84-88: the import has resolved; the callback clears the
\* cache of the page prevNodeIdRef.current names when it runs.
ImportResolved ==
  /\ editor.effects = << >>
  /\ editor.imports # << >>
  /\ blockCache' = clearPageCache(blockCache, editor.prevNodeIdRef)
  /\ editor' = [editor EXCEPT !.imports = Tail(@),
                              !.cleared = [at |-> hist.calls, pageId |-> editor.prevNodeIdRef]]
  /\ UNCHANGED <<store, rootContent, nextId, sync, hist, queueVars>>

\* text-editor.tsx:151-234: the content string the editor is created from.
\* No root of the model carries content of its own or is a daily note with a
\* title, so after the local content and the blocks comes initialContent, '[]'.
InitialContent(ed) ==
  IF Truthy(ed.local[ed.nodeId]) THEN ed.local[ed.nodeId]
  ELSE IF ed.blocks # << >> THEN Stringify(RenderBlocks(ed.blocks))
  ELSE Stringify(<< >>)

\* text-editor.tsx:94-347, the effect that creates the editor.
EffectInit ==
  /\ editor.effects # << >>
  /\ Head(editor.effects) = "init"
  /\ LET changed == editor.nodeId # editor.prevNodeIdRef
         e1 == IF changed
               THEN [editor EXCEPT !.doc = NoDocument, !.isInitialized = FALSE,
                                   !.prevNodeIdRef = editor.nodeId]
               ELSE editor
         resized == /\ IsPageNode(e1.nodeId)
                    /\ e1.blocksDefined
                    /\ Len(e1.blocks) # e1.prevBlocksLength
         e2 == IF resized
               THEN [e1 EXCEPT !.doc = NoDocument, !.isInitialized = FALSE,
                               !.prevBlocksLength = Len(e1.blocks)]
               ELSE e1
         waits == IsPageNode(e2.nodeId) /\ ~e2.blocksLoaded
         e3 == IF e2.isInitialized \/ waits \/ e2.doc # NoDocument THEN e2
               ELSE [e2 EXCEPT !.doc = buildDocumentFromContent(InitialContent(e2)),
                               !.closure = e2.nodeId,
                               !.shown = [nodeId |-> e2.nodeId,
                                          from |-> IF /\ ~Truthy(e2.local[e2.nodeId])
                                                      /\ e2.blocks # << >>
                                                   THEN e2.blocksOf ELSE NoPage],
                               !.isInitialized = TRUE]
     IN editor' = [e3 EXCEPT !.effects = Tail(@)]
  /\ UNCHANGED <<store, rootContent, blockCache, nextId, sync, hist, queueVars>>

\* buildContentFromDocument, part_004:455-558: the content string of a
\* document.
RECURSIVE DocContent(_)
DocContent(doc) ==
  IF doc = << >> THEN << >>
  ELSE LET node == Head(doc)
       IN (CASE node.type = "paragraph" -> <<Paragraph(node.content)>>
             [] node.type = "heading" -> <<Heading(node.content)>>
             [] node.type = "bullet_list" -> <<BulletList(node.items)>>
             [] OTHER -> << >>)
          \o DocContent(Tail(doc))

buildContentFromDocument(doc) == Stringify(DocContent(doc))

\* What a call of saveContentToFirebase came to.
Outcome(by, path, nodeId, string, threw) ==
  [by |-> by, path |-> path, nodeId |-> nodeId, string |-> string, threw |-> threw]

\* saveContentToFirebase, part_011:125-228, called with contentString by the
\* closure of document nodeId; ed is the editor as the caller leaves it.  The
\* title is the root's own, so no title update follows the synchronisation.
SaveContentToFirebase(ed, by, nodeId, contentString) ==
  LET contentToSave == IF Truthy(contentString) THEN contentString ELSE ed.local[nodeId]
      parsed == JSONparse(contentToSave)
      quiet == UNCHANGED <<store, blockCache, nextId, sync, hist, queueVars>>
  IN /\ sync.pc = "idle"
     /\ ed.saves < MaxSaves
     /\ IF ~Truthy(contentToSave)
        THEN /\ editor' = [ed EXCEPT !.saves = @ + 1, !.save = Outcome(by, "empty", nodeId, contentToSave, FALSE)]
             /\ UNCHANGED rootContent
             /\ quiet
        ELSE IF ~parsed.ok
        THEN /\ editor' = [ed EXCEPT !.saves = @ + 1, !.save = Outcome(by, "unparsed", nodeId, contentToSave, FALSE)]
             /\ UNCHANGED rootContent
             /\ quiet
        ELSE IF ~IsTemporaryNode(nodeId) /\ (IsDailyId(nodeId) \/ ed.nodes[nodeId] \in {"daily", "page"})
        THEN /\ SyncStart("w1", nodeId, parsed.value)
             /\ editor' = [ed EXCEPT !.saves = @ + 1, !.synced = Append(@, nodeId),
                                     !.save = Outcome(by, "sync", nodeId, contentToSave, FALSE)]
        ELSE IF ~IsTemporaryNode(nodeId)
        THEN \* updateNode: updateDoc rejects when the document is missing.
             /\ editor' = [ed EXCEPT !.saves = @ + 1, !.save = Outcome(by, "update", nodeId, contentToSave,
                                                      ed.nodes[nodeId] = "none")]
             /\ UNCHANGED rootContent
             /\ quiet
        ELSE \* createNode, then the local content moves to the new id.
             \* The new root is written with content: parsedContent.
             /\ ed.nodes[NewNodeId] = "none"
             /\ editor' = [ed EXCEPT !.saves = @ + 1,
                                     !.nodes[NewNodeId] = "page",
                                     !.local[nodeId] = EmptyString,
                                     !.local[NewNodeId] = contentToSave,
                                     !.save = Outcome(by, "create", nodeId, contentToSave, FALSE)]
             /\ rootContent' = rootContent \cup {NewNodeId}
             /\ quiet

\* text-editor.tsx:277-299, dispatchTransaction: the document changes, the
\* content is saved locally and the debounced save is armed.
Type(doc) ==
  /\ editor.doc # NoDocument
  /\ editor.doc # doc
  /\ editor.typed < MaxTyped
  /\ editor' = [editor EXCEPT
       !.doc = doc,
       !.typed = @ + 1,
       !.local[editor.closure] = buildContentFromDocument(doc),
       !.pending = [armed |-> TRUE, content |-> buildContentFromDocument(doc),
                    nodeId |-> editor.closure]]
  /\ UNCHANGED <<store, rootContent, blockCache, nextId, sync, hist, queueVars>>

\* text-editor.tsx:60-66: the debounced save fires.
DebounceFire ==
  /\ editor.pending.armed
  /\ SaveContentToFirebase([editor EXCEPT !.pending = NoPending], "debounce",
                           editor.pending.nodeId, editor.pending.content)

\* text-editor.tsx:310-328, Cmd/Ctrl+S: the content is saved locally and
\* saveContentToFirebase is called.
SaveShortcut ==
  /\ editor.doc # NoDocument
  /\ LET content == buildContentFromDocument(editor.doc)
     IN SaveContentToFirebase([editor EXCEPT !.local[editor.closure] = content],
                              "shortcut", editor.closure, content)

\* saveContentToFirebase as the hook returns it, called with any string.
SaveCall(string) ==
  SaveContentToFirebase(editor, "call", editor.nodeId, string)

(***************************************************************************)
(* The queue driven through its interface: any caller, any operations.     *)
(***************************************************************************)


InitQueue ==
  /\ operations = << >>
  /\ flushTimer = NoTimer
  /\ isProcessing = FALSE
  /\ liveTimers = {}
  /\ flights = << >>
  /\ enq = 0
  /\ log = NoLog
  /\ ended = NoEnd
  /\ burst = << >>

\* Operations a caller hands to addOperation.
QueueOps ==
  { CreateOp(1, "w1", "paragraph", <<"a">>, "p1", 0),
    UpdateTextOp(1, "w1", <<"b">>),
    DeleteAllOp("p1", "w1") }

\* Lists a caller hands to addOperations: every list of one or two operations,
\* and longer lists of creates.
LongOps == {op \in QueueOps : op.kind = "create"}
QueueLists ==
  UNION {[1..n -> QueueOps] : n \in 1..2}
  \cup UNION {[1..n -> LongOps] : n \in 3..MaxOps}

InitQ ==
  /\ InitQueue
  /\ store = EmptyStore
  /\ blockCache = EmptyCache
  /\ nextId = 0
  /\ sync = NoSync
  /\ hist = NoHist(<< >>)
  /\ editor = EditorOn("p1")
  /\ rootContent = {}

NextQ ==
  \/ \E op \in QueueOps : AddOperation(op)
  \/ \E ops \in QueueLists : AddOperations(ops)
  \/ \E t \in TimerIds : TimerFire(t)
  \/ FlushCall
  \/ BeforeUnload
  \/ \E i \in 1..Len(flights) : FlushQuery(i)
  \/ \E i \in 1..Len(flights) : FlushDelChunk(i)
  \/ \E i \in 1..Len(flights) : FlushCommit(i)
  \/ \E i \in 1..Len(flights) : FlushFail(i)
  \/ \E i \in 1..Len(flights) : FlushFinish(i)

\* The queue under the callers the application has: enqueues, timers, the
\* size ceiling, beforeunload and explicit flushes.
SpecQueue == InitQ /\ [][NextQ]_vars

(***************************************************************************)
(* Properties of the Operation Queue.                                      *)
(***************************************************************************)
\* C1: no enqueued operation is dropped without having been written: an
\* operation leaves the queue only in a step after which a successful store
\* write has carried it; in particular one enqueued while a flush is in
\* progress is still queued when that flush succeeds.
C1_NoOperationDropped ==
  [][\A k \in 1..Len(operations) :
       (operations[k] \notin Range(operations')) => operations[k].sn \in log'.written]_vars

\* C2: single-flight flush: at most one flushOperations run is past its guard
\* and issuing store writes at any time, and a call of flushOperations (timer,
\* explicit, beforeunload, size ceiling) made while isProcessing is true or the
\* queue is empty starts no run and writes nothing.
C2_SingleFlight ==
  /\ [](Len(flights) <= 1)
  /\ [][(isProcessing \/ operations' = << >>) => Len(flights') <= Len(flights)]_vars
  /\ [][((isProcessing \/ operations = << >>)
          /\ (FlushCall \/ BeforeUnload \/ \E t \in TimerIds : TimerFire(t)))
        => (flights' = flights /\ store' = store /\ log'.written = log.written)]_vars

\* A run is in progress, and an enqueue that took the queue to the ceiling
\* called flushOperations in the meantime.
C2_Witness ==
  /\ Len(flights) = 1
  /\ isProcessing
  /\ Len(operations) > Len(flights[1].snap)
  /\ Len(operations) >= MAX_BATCH_SIZE

\* C5: when a store write of a flush fails, every operation that was in the
\* queue when the flush started is still queued, isProcessing is false again
\* and the promise of flushOperations resolves.
C5_FailureKeepsQueue ==
  [][\A i \in 1..Len(flights) :
       FlushFail(i) =>
         /\ isProcessing' = FALSE
         /\ ended'.settled = "resolved"
         /\ \A k \in 1..Len(flights[i].snap) : flights[i].snap[k] \in Range(operations')]_vars

\* A flush of a non-empty queue has failed and its operations are still queued.
C5_Witness ==
  /\ ended.outcome = "failed"
  /\ ended.snap # << >>
  /\ ~isProcessing
  /\ Range(ended.snap) \subseteq Range(Sns(operations))

\* C9: debounce collapse: after enqueue calls made one after another with no
\* flush in between and the queue below the ceiling, the flush that a timer
\* starts is started by the timer the last call armed, and it carries the
\* operations of all the calls.
C9_DebounceCollapse ==
  [][\A t \in TimerIds :
       (TimerFire(t) /\ burst # << >> /\ Len(operations) < MAX_BATCH_SIZE
          /\ flights = << >> /\ flights' # << >>)
       => (t = flushTimer /\ Range(burst) \subseteq Range(Sns(flights'[1].snap)))]_vars

\* C10: batch chunking: n create/update/delete operations, enqueued in one
\* call or one at a time with no flush but those the ceiling starts before the
\* last of them, are committed as the consecutive slices of at most
\* MAX_BATCH_SIZE operations of the enqueue order: ceil(n / MAX_BATCH_SIZE)
\* batches that carry all n operations.
C10_BatchChunking ==
  (operations = << >> /\ flights = << >> /\ enq > 0
     /\ log.clean /\ log.cud /\ ~log.early)
  => log.commits = chunkArray([k \in 1..enq |-> k], MAX_BATCH_SIZE)

(***************************************************************************)
(* The editor session: snapshots synchronised, timers, flushes.            *)
(***************************************************************************)
Items ==
  { Paragraph(<<"">>), Paragraph(<<"a">>), Paragraph(<<"b">>),
    BulletList(<<"a">>), BulletList(<<"a", "b">>),
    Heading(<<"a">>) }

Contents == UNION {[1..n -> Items] : n \in 0..MaxItems}

\* The store an earlier session left for a snapshot: its operations on an
\* empty page, applied.
Persisted(content) ==
  IF IsEmptyContent(content) THEN [store |-> EmptyStore, nextId |-> 0]
  ELSE LET r == SyncOps(content, << >>, EmptyCache, 0, "w1", "p1")
       IN [store |-> ApplyBatch(EmptyStore, r.ops), nextId |-> r.nextId]

\* Snapshots an earlier session may have left persisted.
InitContents ==
  { << >>,
    <<Paragraph(<<"a">>)>>,
    <<BulletList(<<"a">>)>>,
    <<Paragraph(<<"a">>), Paragraph(<<"b">>)>>,
    <<BulletList(<<"a">>), Paragraph(<<"a">>)>> }

InitS ==
  /\ InitQueue
  /\ \E base \in InitContents :
       /\ store = Persisted(base).store
       /\ nextId = Persisted(base).nextId
       /\ hist = NoHist(base)
  /\ blockCache = EmptyCache
  /\ sync = NoSync
  /\ editor = EditorOn("p1")
  /\ rootContent = {}

NextS ==
  \/ \E content \in Contents : SyncStart("w1", "p1", content) /\ UNCHANGED editor
  \/ SyncFinish /\ UNCHANGED editor
  \/ \E t \in TimerIds : TimerFire(t)
  \/ \E i \in 1..Len(flights) : FlushQuery(i)
  \/ \E i \in 1..Len(flights) : FlushDelChunk(i)
  \/ \E i \in 1..Len(flights) : FlushCommit(i)
  \/ \E i \in 1..Len(flights) : FlushFail(i)
  \/ \E i \in 1..Len(flights) : FlushFinish(i)

SpecSync == InitS /\ [][NextS]_vars

(***************************************************************************)
(* Properties of NodeService.syncPageBlocks.                               *)
(***************************************************************************)
\* C3: stable identity: two consecutive syncPageBlocks calls that change only
\* the text of the item at one position (a paragraph or a bullet list; same
\* type, same number of items) both emit an Update against the same block id
\* and neither emits a Create for that position, whether or not the first
\* call's operations have been flushed.  Stated for snapshots that do not take
\* the empty-content shortcut.
C3_StableIdentity ==
  hist.calls = 2 =>
    LET S0 == hist.snaps[1].content
        e1 == hist.snaps[2]
        e2 == hist.snaps[3]
        TextOnlyChange(A, B, i) ==
          /\ Len(A) = Len(B)
          /\ i \in 1..Len(A)
          /\ \A j \in 1..Len(A) : j # i => A[j] = B[j]
          /\ A[i].type = B[i].type
          /\ A[i].type \in {"paragraph", "bullet_list"}
          /\ A[i] # B[i]
        Updates(ops, id) ==
          \E k \in 1..Len(ops) :
            ops[k].kind = "update" /\ ops[k].nodeId = id /\ ops[k].text # NoText
        Creates(ops, i) ==
          \E k \in 1..Len(ops) :
            ops[k].kind = "create" /\ ops[k].order = (i - 1) * OrderUnit
    IN \A i \in 1..Len(S0) :
         (/\ TextOnlyChange(S0, e1.content, i)
          /\ TextOnlyChange(e1.content, e2.content, i)
          /\ ~IsEmptyContent(e1.content)
          /\ ~IsEmptyContent(e2.content))
         => /\ \E id \in Ids : Updates(e1.ops, id) /\ Updates(e2.ops, id)
            /\ ~Creates(e1.ops, i)
            /\ ~Creates(e2.ops, i)

\* C4: order uniqueness: starting from a page whose blocks have pairwise
\* distinct orders, whenever a flush completes no two blocks of the store
\* with the same parent have the same order.
C4_OrderUniqueness ==
  [][\A i \in 1..Len(flights) :
       FlushFinish(i) =>
         \A ws \in Workspaces : \A a, b \in Ids :
           (/\ a # b
            /\ Exists(store', ws, a)
            /\ Exists(store', ws, b)
            /\ store'[ws][a].parentId = store'[ws][b].parentId)
           => store'[ws][a].order # store'[ws][b].order]_vars

\* C6: round trip: a snapshot synchronised with syncPageBlocks, its operations
\* flushed, the page's blocks read back in order and rendered as editor
\* content, gives the snapshot's sequence of item types and texts again (the
\* empty snapshot being the same content as one empty paragraph).
C6_RoundTrip ==
  (/\ hist.calls = 1
   /\ sync.pc = "idle"
   /\ operations = << >>
   /\ flights = << >>)
  => LET A == hist.snaps[Len(hist.snaps)].content
         shown == IF A = << >> THEN <<Paragraph(<<"">>)>> ELSE A
     IN RenderBlocks(getBlocks(store, "w1", "p1")) = shown

\* C7: a no-op sync: syncPageBlocks called with the snapshot the persisted
\* blocks of the page were derived from enqueues no operation, with the cache
\* empty or populated by earlier syncs of that snapshot.  Stated for snapshots
\* that do not take the empty-content shortcut.
C7_NoOpSync ==
  LET base == hist.snaps[1].content
  IN \A k \in 2..Len(hist.snaps) :
       (/\ hist.calls <= 2
        /\ ~IsEmptyContent(base)
        /\ \A j \in 2..k : hist.snaps[j].content = base
        /\ \A j \in 2..(k - 1) : hist.snaps[j].ops = << >>)
       => hist.snaps[k].ops = << >>

\* C8: the empty-content shortcut: syncPageBlocks called with an empty
\* snapshot, or with one paragraph of empty content, enqueues exactly one
\* DeleteAll for the page when the page has persisted blocks and nothing when
\* it has none; never a per-block Delete.
C8_EmptyContentShortcut ==
  LET e == hist.snaps[Len(hist.snaps)]
  IN (hist.calls > 0 /\ IsEmptyContent(e.content))
     => IF e.hadBlocks
        THEN e.ops = <<DeleteAllOp("p1", "w1")>>
        ELSE e.ops = << >>

(***************************************************************************)
(* Further properties of the Operation Queue.                              *)
(***************************************************************************)
\* The store after a chunk has taken effect as a whole: each DeleteAll of the
\* chunk, then the batch of its other operations.
RECURSIVE ChunkEffect(_, _)
ChunkEffect(st, chunk) ==
  IF chunk = << >> THEN st
  ELSE LET deleteAllOps == SelectSeq(chunk, IsDeleteAll)
       IN IF deleteAllOps # << >>
          THEN LET op == Head(deleteAllOps)
               IN ChunkEffect(DeleteIds(st, op.ws, ChildIds(st, op.ws, op.pageId)),
                              Tail(deleteAllOps) \o SelectSeq(chunk, IsOther))
          ELSE ApplyBatch(st, chunk)

RECURSIVE ChunksEffect(_, _)
ChunksEffect(st, chunks) ==
  IF chunks = << >> THEN st
  ELSE ChunksEffect(ChunkEffect(st, Head(chunks)), Tail(chunks))

\* C11: chunk atomicity: when a flush fails, the store holds the effect of
\* the chunks before the failing one and nothing else: every chunk has taken
\* effect with all its operations (its DeleteAll operations included) or with
\* none of them.
C11_ChunkAtomicity ==
  [][\A i \in 1..Len(flights) :
       FlushFail(i) =>
         LET chunks == chunkArray(flights[i].snap, MAX_BATCH_SIZE)
         IN \E k \in 0..Len(chunks) :
              store' = ChunksEffect(flights[i].base, SubSeq(chunks, 1, k))]_vars

\* C12: at most one debounce timer is live (armed, neither fired nor
\* cancelled) at any time.
C12_OneLiveTimer == Cardinality(liveTimers) <= 1

C14_NoAutomaticRetry ==
  [][\A t \in TimerIds :
       (TimerFire(t) /\ ended.outcome = "failed" /\ flights = << >> /\ burst = << >>)
       => flights' = flights]_vars

(***************************************************************************)
(* The editor session on the documents of a workspace: navigation, typing, *)
(* saves, and the queue's timers and flushes.                              *)
(***************************************************************************)
\* The documents the route can name.
Docs == {"p1", "p2", "daily-1", "n3", "temp-1"}

\* The documents the user types.
TypedDocs == { <<Paragraph(<<"a">>)>>, <<Paragraph(<<"a">>), Paragraph(<<"b">>)>> }

\* The strings saveContentToFirebase is called with.
Strings == { EmptyString, Garbage, Stringify(<<Paragraph(<<"b">>)>>) }

InitE ==
  /\ InitQueue
  /\ \E base \in { <<Paragraph(<<"a">>)>> } :
       /\ store = Persisted(base).store
       /\ nextId = Persisted(base).nextId
       /\ hist = NoHist(base)
  /\ blockCache = EmptyCache
  /\ sync = NoSync
  /\ \E string \in {EmptyString, Garbage} :
       editor = [EditorOn("p1") EXCEPT !.local["p1"] = string]
  /\ rootContent = {}

\* The effects of a commit run together: no event, timer or promise callback
\* comes between them.
Idle == editor.effects = << >>

NextE ==
  \/ \E nodeId \in Docs : Navigate(nodeId)
  \/ EffectLoad
  \/ EffectClearCache
  \/ EffectInit
  \/ \E k \in 1..Len(editor.loads) : LoadResolved(k)
  \/ ImportResolved
  \/ \E doc \in TypedDocs : Idle /\ Type(doc)
  \/ Idle /\ DebounceFire
  \/ Idle /\ SaveShortcut
  \/ \E string \in Strings : Idle /\ SaveCall(string)
  \/ Idle /\ SyncFinish /\ UNCHANGED editor
  \/ \E t \in TimerIds : Idle /\ TimerFire(t)
  \/ \E i \in 1..Len(flights) : Idle /\ FlushQuery(i)
  \/ \E i \in 1..Len(flights) : Idle /\ FlushDelChunk(i)
  \/ \E i \in 1..Len(flights) : Idle /\ FlushCommit(i)
  \/ \E i \in 1..Len(flights) : Idle /\ FlushFail(i)
  \/ \E i \in 1..Len(flights) : Idle /\ FlushFinish(i)

SpecEditor == InitE /\ [][NextE]_vars

\* C17: on a page with no persisted blocks and an empty cache, a snapshot of
\* paragraph and bullet_list items that is not taken for empty gives exactly
\* one Create per item and nothing else: the paragraph at index i a paragraph
\* block with its content at order i, the bullet_list at index i one bullet
\* block with its items joined at order i.
C17_OneCreatePerItem ==
  (/\ hist.calls = 1
   /\ hist.snaps[1].content = << >>
   /\ ~hist.snaps[2].hadBlocks
   /\ ~IsEmptyContent(hist.snaps[2].content)
   /\ \A i \in 1..Len(hist.snaps[2].content) :
        hist.snaps[2].content[i].type \in {"paragraph", "bullet_list"})
  => LET content == hist.snaps[2].content
         ops == hist.snaps[2].ops
     IN /\ Len(ops) = Len(content)
        /\ \A i \in 1..Len(content) :
             /\ ops[i].kind = "create"
             /\ ops[i].pageId = "p1"
             /\ ops[i].order = (i - 1) * OrderUnit
             /\ IF content[i].type = "paragraph"
                THEN ops[i].btype = "paragraph" /\ ops[i].text = content[i].content
                ELSE ops[i].btype = "bullet" /\ ops[i].text = Join(content[i].items)

\* The loop of a call that has read the page's blocks, after the first k
\* items of its snapshot.
AfterItems(k) ==
  SyncItems([processed |-> {}, ops |-> << >>, cache |-> blockCache, nextId |-> nextId],
            SubSeq(sync.content, 1, k), 0, sync.ws, sync.pageId,
            existingBlockMap(sync.existing), existingParagraphs(sync.existing))

\* C21: unrecognized items are skipped: processing a snapshot item whose type
\* is neither paragraph nor bullet_list adds no operation, hands out no block
\* id and sets no cache entry; the loop only marks the position processed and
\* goes on with the next item.
C21_UnrecognizedSkipped ==
  sync.pc = "read" =>
    \A k \in 1..Len(sync.content) :
      sync.content[k].type \notin {"paragraph", "bullet_list"} =>
        /\ AfterItems(k).ops = AfterItems(k - 1).ops
        /\ AfterItems(k).nextId = AfterItems(k - 1).nextId
        /\ AfterItems(k).cache = AfterItems(k - 1).cache
        /\ AfterItems(k).processed = AfterItems(k - 1).processed \cup {(k - 1) * OrderUnit}

\* A call with a heading after a paragraph on a page with persisted blocks has
\* ended: the paragraph's operation is all it enqueued.
C21_Witness ==
  /\ hist.calls >= 1
  /\ LET e == hist.snaps[Len(hist.snaps)]
     IN /\ e.content = <<Paragraph(<<"b">>), Heading(<<"a">>)>>
        /\ e.hadBlocks
        /\ Len(e.ops) = 1
        /\ e.ops[1].kind = "update"

C24_DeleteAllBeforeBatch ==
  [][\A i \in 1..Len(flights) :
       FlushCommit(i) =>
         \E k \in 1..Len(chunkArray(flights[i].snap, MAX_BATCH_SIZE)) :
           LET chunk == chunkArray(flights[i].snap, MAX_BATCH_SIZE)[k]
               rest == Tail(flights[i].plan)
           IN /\ Step(i).ops = SelectSeq(chunk, IsOther)
              /\ \A j \in 1..Len(chunk) :
                   IsDeleteAll(chunk[j]) =>
                     /\ chunk[j].sn \in log.written
                     /\ \A r \in 1..Len(rest) : rest[r].sn # chunk[j].sn
              /\ store' = ApplyBatch(store, SelectSeq(chunk, IsOther))]_vars

\* A run whose one chunk holds a create enqueued before a deleteAll has issued
\* all its writes: the page was emptied first and the created block is there.
C24_Witness ==
  /\ Len(flights) = 1
  /\ flights[1].plan = << >>
  /\ Len(flights[1].snap) = 2
  /\ flights[1].snap[1].kind = "create"
  /\ flights[1].snap[2].kind = "deleteAll"
  /\ flights[1].snap[1].pageId = flights[1].snap[2].pageId
  /\ Exists(store, "w1", flights[1].snap[1].nodeId)
  /\ {1, 2} \subseteq log.written

(***************************************************************************)
(* The Block Identity Cache driven through its interface                   *)
(* (block-cache.store.ts:15-59): any caller, any page, position and id.    *)
(***************************************************************************)
\* The pages and block ids the callers name.
CachePages == {"p1", "p2"}
CacheIds == 1..3

\* Lines 25-39.
SetBlockId(pageId, order, blockId) ==
  /\ blockCache' = setBlockId(blockCache, pageId, order, blockId)
  /\ UNCHANGED <<store, rootContent, nextId, sync, hist, editor, queueVars>>

\* Lines 50-53.
ClearAllCache ==
  /\ blockCache' = clearAllCache(blockCache)
  /\ UNCHANGED <<store, rootContent, nextId, sync, hist, editor, queueVars>>

InitC ==
  /\ InitQueue
  /\ store = EmptyStore
  /\ nextId = 0
  /\ hist = NoHist(<< >>)
  /\ blockCache = EmptyCache
  /\ sync = NoSync
  /\ editor = EditorOn("p1")
  /\ rootContent = {}

NextC ==
  \/ \E pageId \in CachePages, order \in Positions, blockId \in CacheIds :
       SetBlockId(pageId, order, blockId)
  \/ \E pageId \in CachePages : ClearPageCache(pageId)
  \/ ClearAllCache

SpecCache == InitC /\ [][NextC]_vars

\* C22: Block Identity Cache contract.  setBlockId(p, i, id) makes
\* getBlockId(p, i) return id and changes no other answer; clearPageCache(p)
\* makes every getBlockId(p, i) absent and changes no answer for another page;
\* clearAllCache makes every answer absent; so getBlockId(p, i) is the id of
\* the most recent setBlockId(p, i, id) no clear of p or of all has followed,
\* and absent otherwise.
C22_CacheContract ==
  /\ [][/\ \A p \in CachePages : \A i \in Positions : \A id \in CacheIds :
             SetBlockId(p, i, id) =>
               \A q \in Pages : \A j \in Positions :
                 getBlockId(blockCache', q, j) =
                   IF q = p /\ j = i THEN id ELSE getBlockId(blockCache, q, j)
        /\ \A p \in CachePages :
             ClearPageCache(p) =>
               \A q \in Pages : \A j \in Positions :
                 getBlockId(blockCache', q, j) =
                   IF q = p THEN NoId ELSE getBlockId(blockCache, q, j)
        /\ ClearAllCache =>
             \A q \in Pages : \A j \in Positions : getBlockId(blockCache', q, j) = NoId]_vars

\* Page p1 has no entry while page p2 holds the ids set for its two positions.
C22_Witness ==
  /\ \A i \in Positions : getBlockId(blockCache, "p1", i) = NoId
  /\ getBlockId(blockCache, "p2", 0) = 3
  /\ getBlockId(blockCache, "p2", 1) = 1

\* C25: the cache wins: for a paragraph or bullet_list item at a position for
\* which the Block Identity Cache holds an entry when the call reads it, every
\* operation the call emits for that item is an Update of text against the
\* cached block id; no Create, no Delete and no Update of another block.
C25_CacheWins ==
  sync.pc = "read" =>
    \A k \in 1..Len(sync.content) :
      (/\ sync.content[k].type \in {"paragraph", "bullet_list"}
       /\ getBlockId(blockCache, sync.pageId, k - 1) # NoId)
      => LET before == AfterItems(k - 1).ops
             after == AfterItems(k).ops
         IN \A j \in (Len(before) + 1)..Len(after) :
              /\ after[j].kind = "update"
              /\ after[j].text # NoText
              /\ after[j].nodeId = getBlockId(blockCache, sync.pageId, k - 1)

\* C26: the operations one syncPageBlocks call hands to the queue target
\* pairwise distinct blocks: no block id is the target of two of them.
C26_DisjointTargets ==
  \A e \in 2..Len(hist.snaps) :
    \A a, b \in 1..Len(hist.snaps[e].ops) :
      (a # b /\ hist.snaps[e].ops[a].nodeId # NoId)
      => hist.snaps[e].ops[a].nodeId # hist.snaps[e].ops[b].nodeId

\* C27: type replacement: for a paragraph or bullet_list item at position i,
\* an empty paragraph included, with no cache entry for i and a persisted
\* block of another type at order i, the operations the call emits for the
\* item are a Delete of that block followed by the Create at order i or the
\* Update that moves a paragraph to order i.
C27_TypeReplacement ==
  sync.pc = "read" =>
    \A k \in 1..Len(sync.content) :
      \A b \in 1..Len(sync.existing) :
        (/\ sync.content[k].type \in {"paragraph", "bullet_list"}
         /\ getBlockId(AfterItems(k - 1).cache, sync.pageId, k - 1) = NoId
         /\ sync.existing[b].order = (k - 1) * OrderUnit
         /\ sync.existing[b].type #
              (IF sync.content[k].type = "paragraph" THEN "paragraph" ELSE "bullet"))
        => LET before == AfterItems(k - 1).ops
               after == AfterItems(k).ops
           IN /\ Len(after) = Len(before) + 2
              /\ after[Len(before) + 1].kind = "delete"
              /\ after[Len(before) + 1].nodeId = sync.existing[b].id
              /\ after[Len(before) + 2].kind \in {"create", "update"}
              /\ after[Len(before) + 2].order = (k - 1) * OrderUnit

\* C28: move detection: when the call emits Update{order: i} to move an
\* existing paragraph to position i, that paragraph is consumed: the move is
\* the only operation of the call that targets it (no Delete from the final
\* loop, no Update for its old position) and the call caches it for no
\* position.
C28_MoveConsumes ==
  sync.pc = "read" =>
    \A k \in 1..Len(sync.content) :
      LET before == AfterItems(k - 1).ops
          after == AfterItems(k).ops
          all == SyncOps(sync.content, sync.existing, blockCache, nextId, sync.ws, sync.pageId)
      IN (/\ Len(after) > Len(before)
          /\ after[Len(after)].kind = "update"
          /\ after[Len(after)].order = (k - 1) * OrderUnit)
         => /\ Cardinality({j \in 1..Len(all.ops) :
                              all.ops[j].nodeId = after[Len(after)].nodeId}) = 1
            /\ \A i \in Positions :
                 getBlockId(all.cache, sync.pageId, i) = after[Len(after)].nodeId
                 => getBlockId(blockCache, sync.pageId, i) = after[Len(after)].nodeId

\* The store an earlier session left when it synchronised a snapshot twice,
\* the second call reading the page before the operations of the first were
\* written: the second call saw no block and only the cache of the first.
PersistedTwice(content) ==
  LET first == SyncOps(content, << >>, EmptyCache, 0, "w1", "p1")
      second == SyncOps(content, << >>, first.cache, first.nextId, "w1", "p1")
  IN [store |-> ApplyBatch(ApplyBatch(EmptyStore, first.ops), second.ops),
      nextId |-> second.nextId]

InitT ==
  /\ InitQueue
  /\ \E base \in { <<Paragraph(<<"a">>), BulletList(<<"a">>)>>,
                   <<Paragraph(<<"a">>), Paragraph(<<"b">>)>> } :
       /\ store = PersistedTwice(base).store
       /\ nextId = PersistedTwice(base).nextId
       /\ hist = NoHist(base)
  /\ blockCache = EmptyCache
  /\ sync = NoSync
  /\ editor = EditorOn("p1")
  /\ rootContent = {}

SpecTrail == InitT /\ [][NextS]_vars

\* C29: trailing delete: of the operations the call emits after its last
\* snapshot position, every persisted block of the page whose order is not
\* within 0.0001 of a processed order is the target of exactly one Delete, and
\* no block whose order is within 0.0001 of a processed order is the target of
\* any.
C29_TrailingDelete ==
  sync.pc = "read" =>
    LET done == AfterItems(Len(sync.content))
        all == SyncOps(sync.content, sync.existing, blockCache, nextId, sync.ws, sync.pageId)
        trailing == SubSeq(all.ops, Len(done.ops) + 1, Len(all.ops))
    IN \A b \in 1..Len(sync.existing) :
         LET deletes == {j \in 1..Len(trailing) :
                           trailing[j].kind = "delete"
                           /\ trailing[j].nodeId = sync.existing[b].id}
         IN IF \E p \in done.processed : WithinUnits(sync.existing[b].order, p, 10000)
            THEN deletes = {}
            ELSE Cardinality(deletes) = 1

(***************************************************************************)
(* Properties of the editor session.                                       *)
(***************************************************************************)
\* C15: document switch: when the callback scheduled by a change of nodeId
\* from document A to document B runs, the Block Identity Cache entries of A
\* are cleared and the entries of B are left as they were.
C15_SwitchClearsPrevious ==
  [][Len(editor'.imports) < Len(editor.imports)
     => LET switch == Head(editor.imports)
        IN /\ blockCache'[switch.from] = EmptyCache[switch.from]
           /\ blockCache'[switch.to] = blockCache[switch.to]]_vars

\* C16: explicit save: when the save made by the Cmd/Ctrl+S shortcut hands its
\* operations to the queue and no flush is running, a flush of them starts in
\* that step, without waiting for the debounce timer.
C16_ShortcutFlushesNow ==
  [][(editor'.save.by = "shortcut" /\ enq' # enq /\ ~isProcessing)
     => /\ isProcessing'
        /\ Len(flights') = Len(flights) + 1]_vars

\* C18: losing the Block Identity Cache is safe: when the cache of a page is
\* cleared between two syncs of that page, then once every operation of both
\* has been written the page has no two blocks at one order and no block
\* beyond the later snapshot, whether or not the operations of the earlier
\* sync were still queued at the later one.
C18_CacheLossSafe ==
  (/\ hist.calls = 2
   /\ Len(editor.synced) = 2
   /\ editor.synced[1] = editor.synced[2]
   /\ editor.cleared = [at |-> 1, pageId |-> editor.synced[2]]
   /\ sync.pc = "idle"
   /\ operations = << >>
   /\ flights = << >>
   /\ log.written = 1..enq)
  => LET content == hist.snaps[3].content
         blocks == ChildIds(store, "w1", editor.synced[2])
     IN /\ \A a, b \in blocks : a # b => store["w1"][a].order # store["w1"][b].order
        /\ \A a \in blocks : \E i \in 0..(Len(content) - 1) :
             store["w1"][a].order = i * OrderUnit

\* C19: missing document root: a call of saveContentToFirebase with content
\* that parses, for a nodeId that has no record, creates the document and does
\* not fail; it issues no update and no block synchronisation.
C19_MissingRootCreates ==
  [][(/\ editor'.saves = editor.saves + 1
      /\ editor'.save.path \notin {"empty", "unparsed"}
      /\ editor.nodes[editor'.save.nodeId] = "none")
     => /\ editor'.save.path = "create"
        /\ ~editor'.save.threw]_vars

\* C20: parse failure: when the content the editor is created from is not
\* valid JSON the document built is the empty document (one empty paragraph),
\* and a call of saveContentToFirebase whose content is not valid JSON enqueues
\* no operation, writes nothing to the store, starts no synchronisation,
\* creates no node and raises no error.
C20_ParseFailure ==
  [][/\ (/\ editor.effects # << >>
         /\ Head(editor.effects) = "init"
         /\ editor'.isInitialized
         /\ editor'.doc # editor.doc
         /\ ~JSONparse(InitialContent(editor)).ok)
        => editor'.doc = EmptyDocument
     /\ (/\ editor'.saves = editor.saves + 1
         /\ ~JSONparse(editor'.save.string).ok)
        => /\ enq' = enq
           /\ operations' = operations
           /\ flights' = flights
           /\ store' = store
           /\ sync' = sync
           /\ editor'.nodes = editor.nodes
           /\ ~editor'.save.threw]_vars

\* The editor was created from local content that is no JSON and shows the
\* empty document, and a save of that content has returned.
C20_Witness ==
  /\ editor.isInitialized
  /\ editor.local[editor.closure] = Garbage
  /\ editor.doc = EmptyDocument
  /\ editor.save.path = "unparsed"
  /\ editor.save.string = Garbage
  /\ enq = 0

(***************************************************************************)
(* The content field of the root record.  A page root is created with its *)
(* content (createNode call of saveContentToFirebase), and syncPageBlocks *)
(* removes the field on its non-empty path (node.service.ts:1138-1148).   *)
(***************************************************************************)

\* The page p1 was created with content and has one persisted paragraph.
InitR ==
  /\ InitQueue
  /\ store = Persisted(<<Paragraph(<<"a">>)>>).store
  /\ nextId = Persisted(<<Paragraph(<<"a">>)>>).nextId
  /\ hist = NoHist(<<Paragraph(<<"a">>)>>)
  /\ blockCache = EmptyCache
  /\ sync = NoSync
  /\ editor = EditorOn("p1")
  /\ rootContent = {"p1"}

SpecRoot == InitR /\ [][NextS]_vars

\* C30: after any syncPageBlocks call on a root whose record carries a
\* content field, the empty-snapshot shortcut included, the root record no
\* longer carries the field.
C30_RootContentStripped ==
  [][hist'.calls = hist.calls + 1 => "p1" \notin rootContent']_vars

\* The same for the calls that take the non-empty path only.
C30_StrippedOnNonEmptyPath ==
  [][(hist'.calls = hist.calls + 1 /\ ~IsEmptyContent(hist'.snaps[Len(hist'.snaps)].content))
       => "p1" \notin rootContent']_vars

C30_Witness ==
  /\ hist.calls >= 1
  /\ IsEmptyContent(hist.snaps[Len(hist.snaps)].content)
  /\ "p1" \in rootContent

(***************************************************************************)
(* handleDeleteAll on a store with several pages and workspaces.           *)
(***************************************************************************)
\* Workspace w1 holds three blocks of p1 and one of p2; workspace w2 holds
\* one block of p1 and one of p2 under the same ids.
StoreD ==
  [w \in Workspaces |-> [id \in Ids |->
     IF w = "w1"
     THEN (IF id <= 3 THEN Block("paragraph", <<"a">>, "p1", (id - 1) * OrderUnit)
           ELSE Block("paragraph", <<"b">>, "p2", 0))
     ELSE (IF id = 1 THEN Block("paragraph", <<"a">>, "p1", 0)
           ELSE IF id = 2 THEN Block("paragraph", <<"b">>, "p2", 0)
           ELSE NoBlock)]]

DeleteAllOps ==
  { DeleteAllOp("p1", "w1"), DeleteAllOp("p2", "w1"), DeleteAllOp("p1", "w2"),
    UpdateTextOp(1, "w1", <<"b">>) }

InitD ==
  /\ InitQueue
  /\ store = StoreD
  /\ blockCache = EmptyCache
  /\ nextId = MaxIds
  /\ sync = NoSync
  /\ hist = NoHist(<< >>)
  /\ editor = EditorOn("p1")
  /\ rootContent = {"p1"}

NextD ==
  \/ \E op \in DeleteAllOps : AddOperation(op)
  \/ \E t \in TimerIds : TimerFire(t)
  \/ \E i \in 1..Len(flights) : FlushQuery(i)
  \/ \E i \in 1..Len(flights) : FlushDelChunk(i)
  \/ \E i \in 1..Len(flights) : FlushCommit(i)
  \/ \E i \in 1..Len(flights) : FlushFail(i)
  \/ \E i \in 1..Len(flights) : FlushFinish(i)

SpecDeleteAll == InitD /\ [][NextD]_vars

\* C31: when a DeleteAll{pageId} has run (its query answered and its last
\* batch of deletes committed), the store is the store the query saw without
\* the blocks whose parentId is pageId in that workspace: blocks of other
\* pages and of other workspaces are unchanged, and so is the root record.
C31_DeleteAllFrame ==
  [][\A i \in 1..Len(flights) :
       ( /\ flights[i].plan # << >>
         /\ Step(i).kind = "delChunk"
         /\ (Len(flights[i].plan) = 1 \/ flights[i].plan[2].kind # "delChunk")
         /\ Len(flights') = Len(flights)
         /\ flights'[i].plan = Tail(flights[i].plan) )
       => /\ store' = [w \in Workspaces |-> [id \in Ids |->
                         IF /\ w = Step(i).ws
                            /\ flights[i].seen[w][id].parentId = Step(i).pageId
                         THEN NoBlock ELSE flights[i].seen[w][id]]]
          /\ rootContent' = rootContent]_vars

\* A DeleteAll of p1 in w1 has removed three blocks in two batches; the block
\* of p2 and the blocks of w2 are there.
C31_Witness ==
  /\ ChildIds(store, "w1", "p1") = {}
  /\ ChildIds(store, "w1", "p2") = {4}
  /\ ChildIds(store, "w2", "p1") = {1}
  /\ ChildIds(store, "w2", "p2") = {2}
  /\ "p1" \in rootContent

(***************************************************************************)
(* A session that has already synchronised the page once: the blocks of    *)
(* the first call are persisted and the Block Identity Cache holds their   *)
(* ids.                                                                    *)
(***************************************************************************)
InitW ==
  /\ InitQueue
  /\ \E base \in { <<Paragraph(<<"a">>)>>,
                   <<Paragraph(<<"a">>), Paragraph(<<"b">>)>> } :
       LET first == SyncOps(base, << >>, EmptyCache, 0, "w1", "p1")
       IN /\ store = ApplyBatch(EmptyStore, first.ops)
          /\ nextId = first.nextId
          /\ blockCache = first.cache
          /\ hist = NoHist(base)
  /\ sync = NoSync
  /\ editor = EditorOn("p1")
  /\ rootContent = {}

SpecWarm == InitW /\ [][NextS]_vars

\* C32: every Update that a syncPageBlocks call emits targets a block that
\* exists: the block is persisted under the page, or a Create for it is in
\* the queue or earlier in the call's own operations.  A block deleted by
\* the delete loop or by a DeleteAll gets no Update from a later call.
C32_UpdateTargetsExist ==
  [][hist'.calls = hist.calls + 1 =>
       \A k \in 1..Len(hist'.snaps[Len(hist'.snaps)].ops) :
         hist'.snaps[Len(hist'.snaps)].ops[k].kind = "update" =>
           \/ /\ Exists(store, "w1", hist'.snaps[Len(hist'.snaps)].ops[k].nodeId)
              /\ store["w1"][hist'.snaps[Len(hist'.snaps)].ops[k].nodeId].parentId = "p1"
           \/ \E j \in 1..Len(operations) :
                /\ operations[j].kind = "create"
                /\ operations[j].nodeId = hist'.snaps[Len(hist'.snaps)].ops[k].nodeId
           \/ \E j \in 1..(k - 1) :
                /\ hist'.snaps[Len(hist'.snaps)].ops[j].kind = "create"
                /\ hist'.snaps[Len(hist'.snaps)].ops[j].nodeId
                     = hist'.snaps[Len(hist'.snaps)].ops[k].nodeId]_vars

\* The second sentence of C32 alone: a call that read the page after the
\* block was deleted emits no Update for it out of a cache entry.
C32_NoUpdateThroughStaleCache ==
  [][hist'.calls = hist.calls + 1 =>
       \A k \in 1..Len(hist'.snaps[Len(hist'.snaps)].ops) :
         hist'.snaps[Len(hist'.snaps)].ops[k].kind = "update" =>
           \/ \E b \in 1..Len(sync.existing) :
                sync.existing[b].id = hist'.snaps[Len(hist'.snaps)].ops[k].nodeId
           \/ \E j \in 1..Len(operations) :
                /\ operations[j].kind = "create"
                /\ operations[j].nodeId = hist'.snaps[Len(hist'.snaps)].ops[k].nodeId
           \/ \E j \in 1..(k - 1) :
                /\ hist'.snaps[Len(hist'.snaps)].ops[j].kind = "create"
                /\ hist'.snaps[Len(hist'.snaps)].ops[j].nodeId
                     = hist'.snaps[Len(hist'.snaps)].ops[k].nodeId]_vars

(***************************************************************************)
(* Convergence.  The store is reachable and rejects a batch only when one  *)
(* of its updates addresses a record that does not exist; armed timers     *)
(* fire, awaited store calls answer, and the document changes MaxSyncs     *)
(* times at most.                                                          *)
(***************************************************************************)
\* batch.commit() rejects: an update of the batch addresses a missing record.
FlushReject(i) ==
  /\ i \in 1..Len(flights)
  /\ flights[i].plan # << >>
  /\ Step(i).kind = "commit"
  /\ ~BatchOK(store, Step(i).ops)
  /\ FlushFail(i)

NextL ==
  \/ \E content \in Contents : SyncStart("w1", "p1", content) /\ UNCHANGED editor
  \/ SyncFinish /\ UNCHANGED editor
  \/ \E t \in TimerIds : TimerFire(t)
  \/ \E i \in 1..Len(flights) : FlushQuery(i)
  \/ \E i \in 1..Len(flights) : FlushDelChunk(i)
  \/ \E i \in 1..Len(flights) : FlushCommit(i)
  \/ \E i \in 1..Len(flights) : FlushReject(i)
  \/ \E i \in 1..Len(flights) : FlushFinish(i)

\* A call of syncPageBlocks that has read the page's blocks runs to its end
\* (a SyncFinish step is the only one that leaves sync.pc = "read").
SpecConverge ==
  /\ InitW
  /\ [][NextL]_vars
  /\ []<>(sync.pc = "idle")
  /\ WF_vars(\E t \in TimerIds : TimerFire(t))
  /\ WF_vars(\E i \in 1..Len(flights) :
               FlushQuery(i) \/ FlushDelChunk(i) \/ FlushCommit(i)
                 \/ FlushReject(i) \/ FlushFinish(i))

\* The queue is at rest and the page's blocks render as the last snapshot.
Converged ==
  /\ operations = << >>
  /\ ~isProcessing
  /\ flights = << >>
  /\ LET A == hist.snaps[Len(hist.snaps)].content
         shown == IF A = << >> THEN <<Paragraph(<<"">>)>> ELSE A
     IN RenderBlocks(getBlocks(store, "w1", "p1")) = shown

\* C33: eventual convergence: once the document stops changing, eventually
\* and from then on the queue is empty, no flush is in progress and the
\* blocks persisted under the page are content-equivalent to the last
\* snapshot passed to syncPageBlocks.
C33_EventualConvergence == <>[](sync.pc = "idle" => Converged)

\* The queue part of C33 alone: no operation stays in the queue forever.
C33_QueueDrains == <>[](sync.pc = "idle" => operations = << >>)

(***************************************************************************)
(* The queue as a sequential log.                                          *)
(***************************************************************************)
\* The operations applied one at a time, in the order they were enqueued.
RECURSIVE ApplyInOrder(_, _)
ApplyInOrder(st, ops) ==
  IF ops = << >> THEN st
  ELSE ApplyInOrder(
         IF Head(ops).kind = "deleteAll"
         THEN [st EXCEPT ![Head(ops).ws] =
                [id \in Ids |-> IF st[Head(ops).ws][id].parentId = Head(ops).pageId
                                THEN NoBlock ELSE st[Head(ops).ws][id]]]
         ELSE ApplyWrite(st, Head(ops)),
         Tail(ops))

\* C34: a successful flush leaves the store as applying the operations it
\* read one at a time in the order they were enqueued does; a Create for a
\* block of page P enqueued before a DeleteAll of P in the same flush does
\* not survive the flush.
C34_FlushIsSequential ==
  [][\A i \in 1..Len(flights) :
       FlushFinish(i) => store = ApplyInOrder(flights[i].base, flights[i].snap)]_vars

\* C35: type consistency: an Update of text emitted for the snapshot item at
\* position i targets a block of the item's type (a paragraph block for a
\* paragraph item, a bullet block for a bullet_list item), the block's type
\* being the one persisted in the store or the one of its queued Create.
C35_TypeConsistency ==
  sync.pc = "read" =>
    \A k \in 1..Len(sync.content) :
      LET before == AfterItems(k - 1).ops
          after == AfterItems(k).ops
          want == IF sync.content[k].type = "bullet_list" THEN "bullet" ELSE "paragraph"
      IN \A j \in (Len(before) + 1)..Len(after) :
           (after[j].kind = "update" /\ after[j].text # NoText)
           => /\ Exists(store, sync.ws, after[j].nodeId)
                   => store[sync.ws][after[j].nodeId].type = want
              /\ \A q \in 1..Len(operations) :
                   (operations[q].kind = "create" /\ operations[q].nodeId = after[j].nodeId)
                   => operations[q].btype = want

\* C36: whenever the editor is created for document N from the loaded block
\* list, that list was loaded from the store for N: the blocks of another
\* document are never shown for N, in whatever order the loads complete.
C36_BlocksOfShownDocument ==
  editor.shown.from # NoPage => editor.shown.from = editor.shown.nodeId

(***************************************************************************)
(* The queue with clearQueue among its callers' operations.                *)
(***************************************************************************)
NextK ==
  \/ \E op \in QueueOps : AddOperation(op)
  \/ ClearQueue
  \/ \E t \in TimerIds : TimerFire(t)
  \/ \E i \in 1..Len(flights) : FlushQuery(i)
  \/ \E i \in 1..Len(flights) : FlushDelChunk(i)
  \/ \E i \in 1..Len(flights) : FlushCommit(i)
  \/ \E i \in 1..Len(flights) : FlushFail(i)
  \/ \E i \in 1..Len(flights) : FlushFinish(i)

SpecClear == InitQ /\ [][NextK]_vars

\* C37: clearQueue called while a flush is in progress keeps the queue
\* consistent: isProcessing is true exactly while a flushOperations run is
\* executing, at most one run executes at a time, and an operation that is
\* not one of those the run read is still queued when the run completes.
C37_ClearQueueConsistent ==
  [][/\ isProcessing' <=> flights' # << >>
     /\ Len(flights') <= 1
     /\ \A i \in 1..Len(flights) :
          FlushFinish(i) =>
            \A k \in 1..Len(operations) :
              operations[k].sn \notin Range(Sns(flights[i].snap))
                => operations[k] \in Range(operations')]_vars

\* The first two conjuncts of C37 as a state predicate.
C37_SingleFlight ==
  /\ isProcessing <=> flights # << >>
  /\ Len(flights) <= 1

====
